---- MODULE Spec2Model ----
(***************************************************************************)
(* Membership application form (src/App.tsx, src/types.ts): the form       *)
(* record and its error set, the two acknowledgment tracks, the            *)
(* asynchronous photo read and the capture-and-compose submission          *)
(* pipeline, as one state machine with one action per event handler.       *)
(*                                                                         *)
(* A string is a sequence of one-character strings, so that the            *)
(* Latin-name character class and the ISO date parse work on characters.   *)
(* The Korean labels of the enumerated fields are written as a single      *)
(* symbol in Latin transliteration.                                        *)
(***************************************************************************)
EXTENDS Integers, Sequences, FiniteSets, TLC

\* ---------------------------------------------------------------- bounds
\* User events (edits, selections, clicks) in one behaviour.
MaxEvents == 4
\* Length of the raw strings typed into the Latin-name field.
MaxRawLen == 3
\* Capture sizes 1..MaxSmallDim are tried next to the sizes around the page's.
MaxSmallDim == 3
\* Birth years span today's year - MaxAge .. today's year + 1.
MaxAge == 18

\* ---------------------------------------------------------------- values
EmptyStr == << >>
null == <<"#null">>
undefined == <<"#undefined">>

\* JavaScript truthiness of a string | null | undefined.
Truthy(v) == v # EmptyStr /\ v # null /\ v # undefined

\* FormData (types.ts): the 13 fields of the record.
FormFields ==
  {"affiliation", "nameKorean", "nameEnglish", "membershipType", "gender",
   "email", "phoneApplicant", "guardianRelationship", "guardianName",
   "guardianPhone", "address", "signature", "dateOfBirth"}

\* useState<FormData>({...}): every field starts as ''.
EmptyFormData == [f \in FormFields |-> EmptyStr]

\* ---------------------------------------------------------------- state
VARIABLES
  formData,             \* useState<FormData>
  profileImage,         \* useState<string | null>: the photo's data URL
  englishNameWarning,   \* useState<string>: the Latin-name advisory
  isPledgeModalOpen,
  isBenefitsModalOpen,
  pledgeChecked,
  benefitsChecked,
  errors,               \* useState<Partial<Record<..., string>>>
  readers,              \* FileReaders reading, each with what its onload closes over
  captures,             \* html2canvas calls pending, each with what handleSubmit closes over
  hidden,               \* whether the .print-ignore elements of the form are hidden
  page,                 \* what the last composition drew on the A4 canvas
  downloads,            \* the file names link.click() has downloaded
  alerts,               \* how many times alert() has been shown
  focused,              \* id of the element focus() was last called on
  today,                \* const today = new Date() of the last render, as a local calendar date
  clock,                \* the local calendar date new Date() gives now
  timeZone,             \* the browser's time zone, by its IANA name
  events,               \* user events and midnights taken in this behaviour
  last                  \* the last event and how it ended

vars ==
  <<formData, profileImage, englishNameWarning, isPledgeModalOpen,
    isBenefitsModalOpen, pledgeChecked, benefitsChecked, errors, readers,
    captures, hidden, page, downloads, alerts, focused, today, clock,
    timeZone,
    events, last>>

formVars == <<formData, profileImage, englishNameWarning, errors>>
gateVars == <<isPledgeModalOpen, isBenefitsModalOpen, pledgeChecked, benefitsChecked>>
pipelineVars == <<captures, hidden, page, downloads, alerts, focused>>
envVars == <<clock, timeZone>>

Event(op, key, val, res) == [op |-> op, key |-> key, val |-> val, res |-> res]

\* ---------------------------------------------------------------- errors
\* The errors object: its own keys in insertion order, each with a message
\* or undefined.
ErrKeys(errs) == {errs[i].key : i \in 1..Len(errs)}

\* errs[k]
ErrGet(errs, k) ==
  IF k \in ErrKeys(errs)
    THEN (CHOOSE e \in {errs[i] : i \in 1..Len(errs)} : e.key = k).msg
    ELSE undefined

\* ({ ...errs, [k]: undefined }): an existing key keeps its place, a new key
\* is added last.
ErrSetUndefined(errs, k) ==
  IF k \in ErrKeys(errs)
    THEN [i \in 1..Len(errs) |->
            IF errs[i].key = k THEN [key |-> k, msg |-> undefined] ELSE errs[i]]
    ELSE Append(errs, [key |-> k, msg |-> undefined])

\* The fixed message of a required item.
ErrorMessage(k) == <<"#required", k>>

\* ---------------------------------------------------------------- numbers as text
DigitChars == <<"0", "1", "2", "3", "4", "5", "6", "7", "8", "9">>

DigitValue(c) == (CHOOSE i \in 1..10 : DigitChars[i] = c) - 1

\* The decimal digits of a number n >= 0, as `${n}` writes them.
RECURSIVE ToDigits(_)
ToDigits(n) ==
  IF n < 10 THEN <<DigitChars[n + 1]>>
  ELSE ToDigits(n \div 10) \o <<DigitChars[(n % 10) + 1]>>

\* `${n}` for any integer.
NumberToString(n) == IF n < 0 THEN <<"-">> \o ToDigits(-n) ELSE ToDigits(n)

\* The number a run of decimal digits denotes.
RECURSIVE ParseDigits(_)
ParseDigits(s) ==
  IF s = << >> THEN 0
  ELSE 10 * ParseDigits(SubSeq(s, 1, Len(s) - 1)) + DigitValue(s[Len(s)])

\* n written with at least two digits (the MM and DD of a date input's value).
Pad2(n) == IF n < 10 THEN <<"0">> \o ToDigits(n) ELSE ToDigits(n)

\* n written with at least four digits (the YYYY of a date input's value).
Pad4(n) ==
  IF n < 10 THEN <<"0", "0", "0">> \o ToDigits(n)
  ELSE IF n < 100 THEN <<"0", "0">> \o ToDigits(n)
  ELSE IF n < 1000 THEN <<"0">> \o ToDigits(n)
  ELSE ToDigits(n)

\* ---------------------------------------------------------------- dates
IsLeapYear(y) == (y % 4 = 0 /\ y % 100 # 0) \/ y % 400 = 0

DaysInMonth(y, m) ==
  IF m = 2 THEN (IF IsLeapYear(y) THEN 29 ELSE 28)
  ELSE IF m \in {4, 6, 9, 11} THEN 30 ELSE 31

\* The value of <input type="date">: "YYYY-MM-DD", for the years 1 to 9999.
DateInputValue(date) ==
  Pad4(date.y) \o <<"-">> \o Pad2(date.m) \o <<"-">> \o Pad2(date.d)

\* new Date("YYYY-MM-DD"): a date-only ISO string is read as midnight UTC of
\* that calendar day.
ParseISODate(s) ==
  [y |-> ParseDigits(SubSeq(s, 1, 4)),
   m |-> ParseDigits(SubSeq(s, 6, 7)),
   d |-> ParseDigits(SubSeq(s, 9, 10))]

PreviousDay(date) ==
  IF date.d > 1 THEN [date EXCEPT !.d = date.d - 1]
  ELSE IF date.m > 1
    THEN [y |-> date.y, m |-> date.m - 1, d |-> DaysInMonth(date.y, date.m - 1)]
    ELSE [y |-> date.y - 1, m |-> 12, d |-> 31]

\* The calendar day after date.
NextDay(date) ==
  IF date.d < DaysInMonth(date.y, date.m) THEN [date EXCEPT !.d = date.d + 1]
  ELSE IF date.m < 12 THEN [y |-> date.y, m |-> date.m + 1, d |-> 1]
  ELSE [y |-> date.y + 1, m |-> 1, d |-> 1]

\* a is the calendar day b or a day before it
DateLeq(a, b) ==
  \/ a.y < b.y
  \/ a.y = b.y /\ a.m < b.m
  \/ a.y = b.y /\ a.m = b.m /\ a.d <= b.d

\* The day of the week of a calendar day, 0 for Sunday.
MonthKeys == <<0, 3, 2, 5, 0, 3, 5, 1, 4, 6, 2, 4>>

DayOfWeek(date) ==
  LET y == IF date.m < 3 THEN date.y - 1 ELSE date.y
  IN (y + (y \div 4) - (y \div 100) + (y \div 400) + MonthKeys[date.m] + date.d) % 7

\* The last Sunday of month m of year y.
LastSunday(y, m) ==
  LET end == [y |-> y, m |-> m, d |-> DaysInMonth(y, m)]
  IN [end EXCEPT !.d = end.d - DayOfWeek(end)]

\* Whether the zone's UTC offset is negative at 00:00 UTC of the calendar day
\* date: the offset the zone had at that instant, not the one it has now.
\*   Asia/Seoul           always east of UTC
\*   UTC                  offset 0
\*   America/Los_Angeles  always west of UTC
\*   Atlantic/Azores      local mean time west of UTC before 1884; from 1994
\*                        on -1 h, and 0 h in summer time, which runs from
\*                        01:00 UTC of the last Sunday of March to 01:00 UTC
\*                        of the last Sunday of October (of September before
\*                        1996); the years 1884 to 1993 are not covered
\*   Pacific/Apia         west of UTC from 11:27 UTC of 4 July 1892 to
\*                        10:00 UTC of 30 December 2011, east before and after
WestOfUTC(zone, date) ==
  CASE zone = "Asia/Seoul" -> FALSE
    [] zone = "UTC" -> FALSE
    [] zone = "America/Los_Angeles" -> TRUE
    [] zone = "Atlantic/Azores" /\ date.y < 1884 -> TRUE
    [] zone = "Atlantic/Azores" /\ date.y >= 1994 ->
         LET first == LastSunday(date.y, 3)
             final == LastSunday(date.y, IF date.y < 1996 THEN 9 ELSE 10)
         IN ~(DateLeq(first, date) /\ date # first /\ DateLeq(date, final))
    [] zone = "Pacific/Apia" ->
         /\ DateLeq([y |-> 1892, m |-> 7, d |-> 5], date)
         /\ DateLeq(date, [y |-> 2011, m |-> 12, d |-> 30])

\* getFullYear/getMonth/getDate read an instant in the browser's local time
\* zone: midnight UTC of a calendar day falls on that day where the zone's
\* offset at that instant is zero or positive and on the previous day where it
\* is negative.
LocalDateOfUTCMidnight(date, zone) ==
  IF WestOfUTC(zone, date) THEN PreviousDay(date) ELSE date

getFullYear(local) == local.y
getMonth(local) == local.m - 1
getDate(local) == local.d

\* Labels of the grade buckets.
HighSchool == "go"
MiddleSchool == "jung"
Elementary == "cho"
Preschool == "michwihak"

\* calculateGrade(birthDate), with the two things it reads from the
\* environment made explicit: now, the local calendar date of new Date(), and
\* the browser's time zone.
calculateGrade(birthDate, now, zone) ==
  IF ~Truthy(birthDate) THEN EmptyStr
  ELSE
    LET birth == LocalDateOfUTCMidnight(ParseISODate(birthDate), zone)
        age0 == getFullYear(now) - getFullYear(birth)
        m == getMonth(now) - getMonth(birth)
        age == IF m < 0 \/ (m = 0 /\ getDate(now) < getDate(birth))
                 THEN age0 - 1 ELSE age0
        koreanAge == age + 1
    IN IF koreanAge >= 17 THEN <<HighSchool>> \o NumberToString(koreanAge - 16)
       ELSE IF koreanAge >= 14 THEN <<MiddleSchool>> \o NumberToString(koreanAge - 13)
       ELSE IF koreanAge >= 8 THEN <<Elementary>> \o NumberToString(koreanAge - 7)
       ELSE IF koreanAge >= 1 THEN <<Preschool>>
       ELSE EmptyStr

\* ---------------------------------------------------------------- page geometry
\* A JavaScript number, finite: an IEEE 754 double, held exactly as sign,
\* significand and exponent, value = (-1)^neg * m * 2^e. The significand m is
\* a natural number in binary, least significant bit first, with no zero bit
\* at either end, so that a value has one representation; zero has the empty
\* significand. Exponent overflow and subnormals are out of reach of the
\* values computed here.
Abs(n) == IF n < 0 THEN -n ELSE n

\* Bits in the significand of a double.
Precision == 53

\* Natural numbers of any size, in binary, least significant bit first. The
\* operators that run along the bits split the range in halves.
\* The bits of n, 0 <= n < 2^30.
BitsOfNat(n) ==
  LET len == CHOOSE l \in 0..30 : n < 2^l /\ (l = 0 \/ n >= 2^(l - 1))
  IN [i \in 1..len |-> (n \div 2^(i - 1)) % 2]

RECURSIVE NatOfBitRange(_, _, _)
NatOfBitRange(a, lo, hi) ==
  IF lo = hi THEN a[lo]
  ELSE LET mid == (lo + hi) \div 2
       IN NatOfBitRange(a, lo, mid)
            + 2^(mid + 1 - lo) * NatOfBitRange(a, mid + 1, hi)

\* The natural number below 2^30 that the bits a hold.
NatOfBits(a) == IF a = << >> THEN 0 ELSE NatOfBitRange(a, 1, Len(a))

\* a without its leading (most significant) zero bits
Trim(a) ==
  IF \A i \in 1..Len(a) : a[i] = 0 THEN << >>
  ELSE SubSeq(a, 1, CHOOSE i \in 1..Len(a) :
                      a[i] = 1 /\ \A j \in (i + 1)..Len(a) : a[j] = 0)

Bit(a, i) == IF i <= Len(a) THEN a[i] ELSE 0

\* Bits lo..hi of a + b with carry c into bit lo, and the carry out.
RECURSIVE AddRange(_, _, _, _, _)
AddRange(a, b, lo, hi, c) ==
  IF lo = hi
    THEN LET t == Bit(a, lo) + Bit(b, lo) + c
         IN [s |-> <<t % 2>>, c |-> t \div 2]
    ELSE LET mid == (lo + hi) \div 2
             low == AddRange(a, b, lo, mid, c)
             high == AddRange(a, b, mid + 1, hi, low.c)
         IN [s |-> low.s \o high.s, c |-> high.c]

BigAdd(a, b) ==
  IF a = << >> THEN b
  ELSE IF b = << >> THEN a
  ELSE LET n == IF Len(a) > Len(b) THEN Len(a) ELSE Len(b)
           sum == AddRange(a, b, 1, n, 0)
       IN IF sum.c = 1 THEN Append(sum.s, 1) ELSE sum.s

\* Bits lo..hi of a - b with borrow c from bit lo, and the borrow out.
RECURSIVE SubRange(_, _, _, _, _)
SubRange(a, b, lo, hi, c) ==
  IF lo = hi
    THEN LET t == Bit(a, lo) - Bit(b, lo) - c
         IN [s |-> <<(t + 2) % 2>>, c |-> IF t < 0 THEN 1 ELSE 0]
    ELSE LET mid == (lo + hi) \div 2
             low == SubRange(a, b, lo, mid, c)
             high == SubRange(a, b, mid + 1, hi, low.c)
         IN [s |-> low.s \o high.s, c |-> high.c]

\* a - b, for a >= b
BigSub(a, b) == IF a = << >> THEN a ELSE Trim(SubRange(a, b, 1, Len(a), 0).s)

\* a < b
BigLess(a, b) ==
  IF Len(a) # Len(b) THEN Len(a) < Len(b)
  ELSE \E i \in 1..Len(a) :
         a[i] < b[i] /\ \A j \in (i + 1)..Len(a) : a[j] = b[j]

\* a from its last bit to its first
Reverse(a) == [i \in 1..Len(a) |-> a[Len(a) + 1 - i]]

\* a * 2^k
ShiftLeft(a, k) == IF a = << >> THEN a ELSE [i \in 1..k |-> 0] \o a

\* The sum of b * 2^(i-1) over the bits i in lo..hi that a has set.
RECURSIVE MulRange(_, _, _, _)
MulRange(a, b, lo, hi) ==
  IF lo = hi THEN (IF a[lo] = 1 THEN ShiftLeft(b, lo - 1) ELSE << >>)
  ELSE LET mid == (lo + hi) \div 2
       IN BigAdd(MulRange(a, b, lo, mid), MulRange(a, b, mid + 1, hi))

BigMul(a, b) ==
  IF a = << >> \/ b = << >> THEN << >> ELSE MulRange(a, b, 1, Len(a))

Zero == [neg |-> FALSE, m |-> << >>, e |-> 0]

\* The number (-1)^neg * m * 2^e in its one representation.
Number(neg, m, e) ==
  IF m = << >> THEN Zero
  ELSE LET z == (CHOOSE i \in 1..Len(m) :
                   m[i] = 1 /\ \A j \in 1..(i - 1) : m[j] = 0) - 1
       IN [neg |-> neg, m |-> SubSeq(m, z + 1, Len(m)), e |-> e + z]

\* The double nearest to (-1)^neg * m * 2^e, ties to the even significand:
\* the rounding of every arithmetic operation.
RoundToDouble(neg, m, e) ==
  IF Len(m) <= Precision THEN Number(neg, m, e)
  ELSE LET d == Len(m) - Precision
           kept == SubSeq(m, d + 1, Len(m))
           sticky == \E i \in 1..(d - 1) : m[i] = 1
           up == m[d] = 1 /\ (sticky \/ kept[1] = 1)
       IN Number(neg, IF up THEN BigAdd(kept, <<1>>) ELSE kept, e + d)

\* The number an integer literal or an integer-valued property holds.
NumberOfInt(k) == Number(k < 0, BitsOfNat(Abs(k)), 0)

\* -a
NumNeg(a) == IF a.m = << >> THEN a ELSE [a EXCEPT !.neg = ~a.neg]

\* a + b before rounding, as sign, significand and exponent.
ExactSum(a, b) ==
  LET e == IF a.e < b.e THEN a.e ELSE b.e
      ma == ShiftLeft(a.m, a.e - e)
      mb == ShiftLeft(b.m, b.e - e)
  IN IF a.neg = b.neg THEN [neg |-> a.neg, m |-> BigAdd(ma, mb), e |-> e]
     ELSE IF BigLess(ma, mb) THEN [neg |-> b.neg, m |-> BigSub(mb, ma), e |-> e]
     ELSE [neg |-> a.neg, m |-> BigSub(ma, mb), e |-> e]

\* a < b
NumLess(a, b) ==
  LET d == ExactSum(a, NumNeg(b)) IN d.m # << >> /\ d.neg

\* a + b
NumAdd(a, b) ==
  LET s == ExactSum(a, b) IN RoundToDouble(s.neg, s.m, s.e)

\* a - b
NumSub(a, b) == NumAdd(a, NumNeg(b))

\* a * b
NumMul(a, b) == RoundToDouble(a.neg # b.neg, BigMul(a.m, b.m), a.e + b.e)

\* Long division of the natural number num by d, over its bits hi down to lo,
\* with remainder r carried in: the quotient bits for hi down to lo, most
\* significant first, and the remainder carried out.
RECURSIVE LongDivision(_, _, _, _, _)
LongDivision(num, lo, hi, r, d) ==
  IF lo = hi
    THEN LET t == 2 * r + num[lo]
             bit == IF t >= d THEN 1 ELSE 0
         IN [q |-> <<bit>>, r |-> t - bit * d]
    ELSE LET mid == (lo + hi) \div 2
             high == LongDivision(num, mid + 1, hi, r, d)
             low == LongDivision(num, lo, mid, high.r, d)
         IN [q |-> high.q \o low.q, r |-> low.r]

\* a / b, for b not zero with a significand below 2^30 (here b is a pixel
\* count or 2): the quotient is taken to more bits than a double holds, a last
\* bit records a remainder, and the result is rounded once.
NumDiv(a, b) ==
  IF a.m = << >> THEN Zero
  ELSE LET extra == Precision + 2 + Len(b.m)
           division == LongDivision(ShiftLeft(a.m, extra), 1, Len(a.m) + extra, 0,
                                    NatOfBits(b.m))
           q == Trim(Reverse(division.q))
       IN IF division.r = 0
            THEN RoundToDouble(a.neg # b.neg, q, a.e - b.e - extra)
            ELSE RoundToDouble(a.neg # b.neg, <<1>> \o q, a.e - b.e - extra - 1)

\* Math.min(a, b)
NumMin(a, b) == IF NumLess(b, a) THEN b ELSE a

a4Width == 1240
a4Height == 1754
contentMargin == 50
contentStartY == 160
availableWidth == a4Width - (contentMargin * 2)
availableHeight == a4Height - contentStartY - contentMargin

\* Math.max in place of Math.min: scale to fill instead of scale to fit.
ScaleRatioMax(w, h) ==
  LET byWidth == NumDiv(NumberOfInt(availableWidth), NumberOfInt(w))
      byHeight == NumDiv(NumberOfInt(availableHeight), NumberOfInt(h))
  IN IF NumLess(byWidth, byHeight) THEN byHeight ELSE byWidth

\* Math.min(availableWidth / canvas.width, availableHeight / canvas.height)
ScaleRatio(w, h) ==
  NumMin(NumDiv(NumberOfInt(availableWidth), NumberOfInt(w)),
         NumDiv(NumberOfInt(availableHeight), NumberOfInt(h)))

\* The rectangle drawImage(canvas, x, y, newWidth, newHeight) paints for a
\* capture of w x h pixels, each number computed and rounded as the code
\* computes it.
ComposePage(w, h) ==
  LET ratio == ScaleRatio(w, h)
      newWidth == NumMul(NumberOfInt(w), ratio)
      newHeight == NumMul(NumberOfInt(h), ratio)
  IN [srcW |-> w, srcH |-> h, ratio |-> ratio,
      x |-> NumDiv(NumSub(NumberOfInt(a4Width), newWidth), NumberOfInt(2)),
      y |-> NumAdd(NumberOfInt(contentStartY),
                   NumDiv(NumSub(NumberOfInt(availableHeight), newHeight),
                          NumberOfInt(2))),
      newWidth |-> newWidth, newHeight |-> newHeight]

\* The page before any composition.
NoPage == [srcW |-> 0, srcH |-> 0, ratio |-> Zero, x |-> Zero,
           y |-> Zero, newWidth |-> Zero, newHeight |-> Zero]

\* ---------------------------------------------------------------- Latin-name class
UpperCase ==
  {"A", "B", "C", "D", "E", "F", "G", "H", "I", "J", "K", "L", "M",
   "N", "O", "P", "Q", "R", "S", "T", "U", "V", "W", "X", "Y", "Z"}
LowerCase ==
  {"a", "b", "c", "d", "e", "f", "g", "h", "i", "j", "k", "l", "m",
   "n", "o", "p", "q", "r", "s", "t", "u", "v", "w", "x", "y", "z"}
\* \s: the 25 UTF-16 code units it matches. Those outside ASCII printing and
\* the TLA+ escapes are written by their code point, one symbol each.
WhiteSpace ==
  {" ", "\t", "\n", "\r", "\f", "U+000B", "U+00A0", "U+1680", "U+2000", "U+2001",
   "U+2002", "U+2003", "U+2004", "U+2005", "U+2006", "U+2007", "U+2008",
   "U+2009", "U+200A", "U+2028", "U+2029", "U+202F", "U+205F", "U+3000",
   "U+FEFF"}

\* /^[\w\s-]*$/ in place of the pattern: digits and the underscore pass too.
regexTestWordChars(value) ==
  \A i \in 1..Len(value) :
    value[i] \in UpperCase \cup LowerCase \cup WhiteSpace \cup {"-", "_"}
                 \cup {DigitChars[d] : d \in 1..10}

\* /^[A-Za-z\s-]*$/.test(value)
regexTest(value) ==
  \A i \in 1..Len(value) : value[i] \in UpperCase \cup LowerCase \cup WhiteSpace \cup {"-"}

\* setEnglishNameWarning's message
EnglishNameWarningText == <<"#latin-only">>

\* ---------------------------------------------------------------- validation
\* The order in which validateForm tests the required items, which is the
\* order of the keys of newErrors.
ValidationOrder ==
  <<"profileImage", "affiliation", "nameKorean", "nameEnglish", "membershipType",
    "gender", "email", "phoneApplicant", "guardianRelationship", "guardianName",
    "guardianPhone", "address", "signature", "dateOfBirth">>

\* The value validateForm tests for key k.
ItemValue(fd, img, k) == IF k = "profileImage" THEN img ELSE fd[k]

\* newErrors as validateForm builds it from formData and profileImage.
RECURSIVE NewErrorsFrom(_, _, _)
NewErrorsFrom(fd, img, i) ==
  IF i > Len(ValidationOrder) THEN << >>
  ELSE LET k == ValidationOrder[i]
       IN (IF ~Truthy(ItemValue(fd, img, k))
             THEN <<[key |-> k, msg |-> ErrorMessage(k)]>> ELSE << >>)
          \o NewErrorsFrom(fd, img, i + 1)

\* validateForm without its first test, the one of profileImage.
newErrorsWithoutPhoto(fd, img) == NewErrorsFrom(fd, img, 2)

\* validateForm without its last test, the one of dateOfBirth.
newErrorsSkipsBirthDate(fd, img) ==
  SelectSeq(NewErrorsFrom(fd, img, 1), LAMBDA e : e.key # "dateOfBirth")

newErrors(fd, img) == NewErrorsFrom(fd, img, 1)

\* Object.keys(errors).length === 0: the state of the last render read in place
\* of newErrors.
validateFormResultStale(fd, img) == Len(errors) = 0

\* Object.keys(newErrors).length === 0
validateFormResult(fd, img) == Len(newErrors(fd, img)) = 0

\* Ids of the elements document.getElementById can find (the radio groups and
\* the file input carry no id).
ElementIds ==
  {"affiliation", "nameKorean", "nameEnglish", "dateOfBirth", "grade", "email",
   "phoneApplicant", "address", "guardianRelationship", "guardianName",
   "guardianPhone", "signature"}

\* ---------------------------------------------------------------- artifact name
\* today.toLocaleDateString('ko-KR') is "Y. M. D."; both replace() calls strip
\* the dots and the spaces.
formattedDate(date) == ToDigits(date.y) \o ToDigits(date.m) \o ToDigits(date.d)

FileSuffix == <<"_", "#application.jpeg">>

\* link.download
DownloadName(nameKorean, date) ==
  nameKorean \o <<"_">> \o formattedDate(date) \o FileSuffix

\* reader.readAsDataURL(file): the data URL of the file's bytes.
DataURL(file) == <<"data:", file>>

\* ---------------------------------------------------------------- derived state
\* value={calculateGrade(formData.dateOfBirth)}: derived at every render,
\* never stored.
Grade == calculateGrade(formData.dateOfBirth, today, timeZone)

\* disabled={!pledgeChecked}
SubmitDisabled == ~pledgeChecked

\* ---------------------------------------------------------------- inputs
\* The fields whose control is wired to handleChange (the Latin name has its
\* own handler).
ChangeNames == FormFields \ {"nameEnglish"}

SampleBirthDate == DateInputValue([y |-> 2015, m |-> 3, d |-> 10])

\* What the control of each field can hand to handleChange: a radio or a
\* select only its option values, a text or date input also ''.
InputValues(name) ==
  CASE name = "membershipType" -> {<<"danche">>, <<"gaein">>}
    [] name = "gender" -> {<<"nam">>, <<"yeo">>}
    [] name = "guardianRelationship" -> {<<"bu">>, <<"mo">>}
    [] name = "affiliation" -> {<<"#affiliation-1">>}
    [] name = "dateOfBirth" -> {EmptyStr, SampleBirthDate}
    [] OTHER -> {EmptyStr, <<"k">>}

\* Characters typed into the Latin-name field.
NameAlphabet == {"A", "z", " ", "-", "7", "_", "\t", "U+3000"}

RECURSIVE StringsUpTo(_)
StringsUpTo(n) ==
  IF n = 0 THEN {EmptyStr}
  ELSE LET shorter == StringsUpTo(n - 1)
       IN shorter \cup {Append(s, c) : s \in shorter, c \in NameAlphabet}

\* Every raw string of up to MaxRawLen characters.
RawNames == StringsUpTo(MaxRawLen)

\* The raw strings typed in the main specification: the field cleared, a name,
\* a name with a digit.
SampleRawNames == {EmptyStr, <<"K", "i", "m">>, <<"K", "1">>}

\* Files the user can select; NoFile is a change event with no file chosen.
Files == {"photo-1", "photo-2"}
NoFile == "none"

\* Size of the canvas html2canvas delivers in the main specification.
CaptureSizes == {<<1792, 3000>>}

\* A record a user has filled in completely.
FilledFormData ==
  [f \in FormFields |->
     CASE f = "membershipType" -> <<"danche">>
       [] f = "gender" -> <<"nam">>
       [] f = "guardianRelationship" -> <<"bu">>
       [] f = "affiliation" -> <<"#affiliation-1">>
       [] f = "dateOfBirth" -> SampleBirthDate
       [] f = "nameEnglish" -> <<"A">>
       [] OTHER -> <<"k">>]

RemoveAt(seq, i) == SubSeq(seq, 1, i - 1) \o SubSeq(seq, i + 1, Len(seq))

\* ---------------------------------------------------------------- handlers
\* A handler whose set-state calls change the state makes the component
\* render again, and the component body reads the clock anew (const today =
\* new Date()); a set-state call with the value the state already holds, and a
\* handler that sets no state, renders nothing and leaves today as it was.
\* handleChange validating as the user types: an emptied field gets its
\* message at once.
handleChangeValidatesLive(name, value) ==
  /\ formData' = [formData EXCEPT ![name] = value]
  /\ errors' = IF Truthy(value)
                 THEN (IF Truthy(ErrGet(errors, name))
                         THEN ErrSetUndefined(errors, name) ELSE errors)
                 ELSE [i \in 1..Len(ErrSetUndefined(errors, name)) |->
                         IF ErrSetUndefined(errors, name)[i].key = name
                           THEN [key |-> name, msg |-> ErrorMessage(name)]
                           ELSE ErrSetUndefined(errors, name)[i]]
  /\ last' = Event("handleChange", name, value, "stored")
  /\ UNCHANGED <<profileImage, englishNameWarning, readers>>
  /\ UNCHANGED <<gateVars, pipelineVars, envVars>>
  /\ today' = clock

\* handleChange clearing the error only when the new value is not empty.
handleChangeKeepsErrorOnEmpty(name, value) ==
  /\ formData' = [formData EXCEPT ![name] = value]
  /\ errors' = IF Truthy(ErrGet(errors, name)) /\ Truthy(value)
                 THEN ErrSetUndefined(errors, name) ELSE errors
  /\ last' = Event("handleChange", name, value, "stored")
  /\ UNCHANGED <<profileImage, englishNameWarning, readers>>
  /\ UNCHANGED <<gateVars, pipelineVars, envVars>>
  /\ today' = clock

handleChange(name, value) ==
  /\ formData' = [formData EXCEPT ![name] = value]
  /\ errors' = IF Truthy(ErrGet(errors, name))
                 THEN ErrSetUndefined(errors, name) ELSE errors
  /\ last' = Event("handleChange", name, value, "stored")
  /\ UNCHANGED <<profileImage, englishNameWarning, readers>>
  /\ UNCHANGED <<gateVars, pipelineVars, envVars>>
  /\ today' = clock

\* handleEnglishNameChange storing the value before it tests it: a value
\* outside the class is stored and the advisory shown.
handleEnglishNameChangeStoresFirst(value) ==
  /\ formData' = [formData EXCEPT !["nameEnglish"] = value]
  /\ IF regexTest(value)
       THEN /\ englishNameWarning' = EmptyStr
            /\ errors' = IF Truthy(ErrGet(errors, "nameEnglish"))
                           THEN ErrSetUndefined(errors, "nameEnglish") ELSE errors
            /\ last' = Event("handleEnglishNameChange", "nameEnglish", value, "stored")
       ELSE /\ englishNameWarning' = EnglishNameWarningText
            /\ UNCHANGED errors
            /\ last' = Event("handleEnglishNameChange", "nameEnglish", value, "rejected")
  /\ UNCHANGED <<profileImage, readers>>
  /\ UNCHANGED <<gateVars, pipelineVars, envVars>>
  /\ today' = clock

handleEnglishNameChange(value) ==
  /\ IF regexTest(value)
       THEN /\ formData' = [formData EXCEPT !["nameEnglish"] = value]
            /\ englishNameWarning' = EmptyStr
            /\ errors' = IF Truthy(ErrGet(errors, "nameEnglish"))
                           THEN ErrSetUndefined(errors, "nameEnglish") ELSE errors
            /\ last' = Event("handleEnglishNameChange", "nameEnglish", value, "stored")
       ELSE /\ englishNameWarning' = EnglishNameWarningText
            /\ UNCHANGED <<formData, errors>>
            /\ last' = Event("handleEnglishNameChange", "nameEnglish", value, "rejected")
  /\ UNCHANGED <<profileImage, readers>>
  /\ UNCHANGED <<gateVars, pipelineVars, envVars>>
  /\ today' = IF regexTest(value) \/ englishNameWarning # EnglishNameWarningText
              THEN clock ELSE today

\* The onload callback closes over the errors of the render in which the file
\* was selected; of it, it reads errors.profileImage.
handleImageUpload(file) ==
  /\ IF file # NoFile
       THEN /\ readers' = Append(readers,
                                 [file |-> file,
                                  errorsProfileImage |-> ErrGet(errors, "profileImage")])
            /\ last' = Event("handleImageUpload", "profileImage", <<file>>, "reading")
       ELSE /\ UNCHANGED readers
            /\ last' = Event("handleImageUpload", "profileImage", EmptyStr, "nofile")
  /\ UNCHANGED <<formVars, gateVars, pipelineVars, envVars>>
  /\ UNCHANGED today

\* The onload callback keeping a photo that is already there: the first read
\* to complete wins.
readerOnloadKeepsFirst(i) ==
  /\ profileImage' = IF profileImage = null
                       THEN DataURL(readers[i].file) ELSE profileImage
  /\ errors' = IF Truthy(readers[i].errorsProfileImage)
                 THEN ErrSetUndefined(errors, "profileImage") ELSE errors
  /\ readers' = RemoveAt(readers, i)
  /\ last' = Event("reader.onload", "profileImage", <<readers[i].file>>, "loaded")
  /\ UNCHANGED <<formData, englishNameWarning>>
  /\ UNCHANGED <<gateVars, pipelineVars, envVars>>
  /\ today' = IF profileImage' # profileImage \/ Truthy(readers[i].errorsProfileImage)
              THEN clock ELSE today

readerOnload(i) ==
  /\ profileImage' = DataURL(readers[i].file)
  /\ errors' = IF Truthy(readers[i].errorsProfileImage)
                 THEN ErrSetUndefined(errors, "profileImage") ELSE errors
  /\ readers' = RemoveAt(readers, i)
  /\ last' = Event("reader.onload", "profileImage", <<readers[i].file>>, "loaded")
  /\ UNCHANGED <<formData, englishNameWarning>>
  /\ UNCHANGED <<gateVars, pipelineVars, envVars>>
  /\ today' = IF profileImage' # profileImage \/ Truthy(readers[i].errorsProfileImage)
              THEN clock ELSE today

\* handleSubmit with the await dropped: the composition and the download run
\* at once on the pending promise, and the capture still completes later.
handleSubmitNoAwait ==
  /\ errors' = newErrors(formData, profileImage)
  /\ IF ~validateFormResult(formData, profileImage)
       THEN /\ focused' = IF Len(errors) > 0 /\ errors[1].key \in ElementIds
                            THEN errors[1].key ELSE focused
            /\ UNCHANGED <<captures, hidden, alerts, downloads>>
            /\ last' = Event("handleSubmit", "", EmptyStr, "invalid")
       ELSE IF ~pledgeChecked
         THEN /\ alerts' = alerts + 1
              /\ UNCHANGED <<captures, hidden, focused, downloads>>
              /\ last' = Event("handleSubmit", "", EmptyStr, "alert")
         ELSE /\ hidden' = TRUE
              /\ captures' = Append(captures,
                                    [nameKorean |-> formData.nameKorean,
                                     today |-> today])
              /\ downloads' = Append(downloads,
                                     DownloadName(formData.nameKorean, today))
              /\ UNCHANGED <<alerts, focused>>
              /\ last' = Event("handleSubmit", "", EmptyStr, "capturing")
  /\ UNCHANGED <<formData, profileImage, englishNameWarning, readers>>
  /\ UNCHANGED page
  /\ UNCHANGED <<gateVars, envVars>>
  /\ today' = clock

\* handleSubmit behind a lock: it returns at once while a capture is pending.
handleSubmitLocked ==
  /\ errors' = IF captures # << >> THEN errors ELSE newErrors(formData, profileImage)
  /\ IF captures # << >>
       THEN /\ UNCHANGED <<captures, hidden, alerts, focused>>
            /\ last' = Event("handleSubmit", "", EmptyStr, "busy")
       ELSE IF ~validateFormResult(formData, profileImage)
         THEN LET firstErrorKey ==
                    IF Len(errors) > 0 THEN errors[1].key ELSE "undefined"
              IN /\ focused' = IF firstErrorKey \in ElementIds
                                 THEN firstErrorKey ELSE focused
                 /\ UNCHANGED <<captures, hidden, alerts>>
                 /\ last' = Event("handleSubmit", "", EmptyStr, "invalid")
         ELSE IF ~pledgeChecked
           THEN /\ alerts' = alerts + 1
                /\ UNCHANGED <<captures, hidden, focused>>
                /\ last' = Event("handleSubmit", "", EmptyStr, "alert")
           ELSE /\ hidden' = TRUE
                /\ captures' = Append(captures,
                                      [nameKorean |-> formData.nameKorean,
                                       today |-> today])
                /\ UNCHANGED <<alerts, focused>>
                /\ last' = Event("handleSubmit", "", EmptyStr, "capturing")
  /\ UNCHANGED <<formData, profileImage, englishNameWarning, readers>>
  /\ UNCHANGED <<page, downloads>>
  /\ UNCHANGED <<gateVars, envVars>>
  /\ today' = IF captures # << >> THEN today ELSE clock

\* handleSubmit up to its await (or its return). validateForm replaces errors
\* by newErrors; Object.keys(errors)[0] reads the errors of the render the
\* click happened in.
handleSubmit ==
  /\ errors' = newErrors(formData, profileImage)
  /\ IF ~validateFormResult(formData, profileImage)
       THEN LET firstErrorKey ==
                  IF Len(errors) > 0 THEN errors[1].key ELSE "undefined"
            IN /\ focused' = IF firstErrorKey \in ElementIds
                               THEN firstErrorKey ELSE focused
               /\ UNCHANGED <<captures, hidden, alerts>>
               /\ last' = Event("handleSubmit", "", EmptyStr, "invalid")
       ELSE IF ~pledgeChecked
         THEN /\ alerts' = alerts + 1
              /\ UNCHANGED <<captures, hidden, focused>>
              /\ last' = Event("handleSubmit", "", EmptyStr, "alert")
         ELSE /\ hidden' = TRUE
              /\ captures' = Append(captures,
                                    [nameKorean |-> formData.nameKorean,
                                     today |-> today])
              /\ UNCHANGED <<alerts, focused>>
              /\ last' = Event("handleSubmit", "", EmptyStr, "capturing")
  /\ UNCHANGED <<formData, profileImage, englishNameWarning, readers>>
  /\ UNCHANGED <<page, downloads>>
  /\ UNCHANGED <<gateVars, envVars>>
  /\ today' = clock

\* The submit button without the disabled attribute: every click runs
\* handleSubmit.
submitButtonClickAlwaysDispatches == handleSubmit

\* A click on the submit button: a disabled button dispatches no click.
submitButtonClick ==
  IF SubmitDisabled
    THEN /\ last' = Event("submitButton", "", EmptyStr, "disabled")
         /\ UNCHANGED <<formVars, readers, gateVars, pipelineVars, envVars>>
         /\ UNCHANGED today
    ELSE handleSubmit

\* The continuation of handleSubmit consulting the pledge again: with the
\* pledge revoked meanwhile it composes the page but downloads nothing.
html2canvasResolvedChecksPledge(i, w, h) ==
  /\ hidden' = FALSE
  /\ page' = ComposePage(w, h)
  /\ downloads' = IF pledgeChecked
                    THEN Append(downloads,
                                DownloadName(captures[i].nameKorean, captures[i].today))
                    ELSE downloads
  /\ captures' = RemoveAt(captures, i)
  /\ last' = Event("html2canvas", "", EmptyStr, "resolved")
  /\ UNCHANGED <<alerts, focused>>
  /\ UNCHANGED <<formVars, readers, gateVars, envVars>>
  /\ UNCHANGED today

\* The continuation of handleSubmit resetting the form after link.click().
html2canvasResolvedResets(i, w, h) ==
  /\ hidden' = FALSE
  /\ page' = ComposePage(w, h)
  /\ downloads' = Append(downloads,
                         DownloadName(captures[i].nameKorean, captures[i].today))
  /\ captures' = RemoveAt(captures, i)
  /\ formData' = EmptyFormData
  /\ profileImage' = null
  /\ last' = Event("html2canvas", "", EmptyStr, "resolved")
  /\ UNCHANGED <<alerts, focused>>
  /\ UNCHANGED <<englishNameWarning, errors, readers, gateVars, envVars>>
  /\ today' = clock

\* handleSubmit after its await, html2canvas having delivered a canvas of
\* w x h pixels.
html2canvasResolved(i, w, h) ==
  /\ hidden' = FALSE
  /\ page' = ComposePage(w, h)
  /\ downloads' = Append(downloads,
                         DownloadName(captures[i].nameKorean, captures[i].today))
  /\ captures' = RemoveAt(captures, i)
  /\ last' = Event("html2canvas", "", EmptyStr, "resolved")
  /\ UNCHANGED <<alerts, focused>>
  /\ UNCHANGED <<formVars, readers, gateVars, envVars>>
  /\ UNCHANGED today

\* html2canvas's promise rejects: the await throws and the rest of
\* handleSubmit does not run.
html2canvasRejected(i) ==
  /\ captures' = RemoveAt(captures, i)
  /\ last' = Event("html2canvas", "", EmptyStr, "rejected")
  /\ UNCHANGED <<hidden, page, downloads, alerts, focused>>
  /\ UNCHANGED <<formVars, readers, gateVars, envVars>>
  /\ UNCHANGED today

\* Midnight passes: new Date() gives the next day from now on. Nothing
\* renders, so the today of the last render and the grade shown stay.
midnight ==
  /\ clock' = NextDay(clock)
  /\ last' = Event("midnight", "", EmptyStr, "")
  /\ UNCHANGED <<today, timeZone>>
  /\ UNCHANGED <<formVars, readers, gateVars, pipelineVars>>

\* The benefits checkbox's onChange; a controlled checkbox reports the
\* opposite of what it shows.
benefitsOnChange ==
  LET checked == ~benefitsChecked
  IN /\ benefitsChecked' = checked
     /\ isBenefitsModalOpen' = IF checked THEN TRUE ELSE isBenefitsModalOpen
     /\ last' = Event("benefitsCheckbox", "", EmptyStr,
                      IF checked THEN "checked" ELSE "unchecked")
     /\ UNCHANGED <<isPledgeModalOpen, pledgeChecked>>
     /\ UNCHANGED <<formVars, readers, pipelineVars, envVars>>
     /\ today' = clock

\* The close button of the benefits modal also withdrawing the acknowledgment.
benefitsModalCloseUnchecks ==
  /\ isBenefitsModalOpen
  /\ isBenefitsModalOpen' = FALSE
  /\ benefitsChecked' = FALSE
  /\ last' = Event("benefitsModal", "", EmptyStr, "closed")
  /\ UNCHANGED <<isPledgeModalOpen, pledgeChecked>>
  /\ UNCHANGED <<formVars, readers, pipelineVars, envVars>>
  /\ today' = clock

benefitsModalClose ==
  /\ isBenefitsModalOpen
  /\ isBenefitsModalOpen' = FALSE
  /\ last' = Event("benefitsModal", "", EmptyStr, "closed")
  /\ UNCHANGED <<isPledgeModalOpen, pledgeChecked, benefitsChecked>>
  /\ UNCHANGED <<formVars, readers, pipelineVars, envVars>>
  /\ today' = clock

\* The pledge checkbox written like the benefits checkbox: it sets
\* pledgeChecked itself and opens the modal.
pledgeOnChangeSetsChecked ==
  LET checked == ~pledgeChecked
  IN /\ pledgeChecked' = checked
     /\ isPledgeModalOpen' = IF checked THEN TRUE ELSE isPledgeModalOpen
     /\ last' = Event("pledgeCheckbox", "", EmptyStr,
                      IF checked THEN "checked" ELSE "unchecked")
     /\ UNCHANGED <<isBenefitsModalOpen, benefitsChecked>>
     /\ UNCHANGED <<formVars, readers, pipelineVars, envVars>>
     /\ today' = clock

\* The pledge checkbox asking for confirmation both ways: unchecking opens the
\* modal too and leaves pledgeChecked as it is.
pledgeOnChangeAlwaysOpens ==
  LET checked == ~pledgeChecked
  IN /\ isPledgeModalOpen' = TRUE
     /\ UNCHANGED pledgeChecked
     /\ last' = Event("pledgeCheckbox", "", EmptyStr,
                      IF checked THEN "checked" ELSE "unchecked")
     /\ UNCHANGED <<isBenefitsModalOpen, benefitsChecked>>
     /\ UNCHANGED <<formVars, readers, pipelineVars, envVars>>
     /\ today' = IF isPledgeModalOpen THEN today ELSE clock

\* The pledge checkbox toggling the modal: a second click while the modal is
\* open dismisses it.
pledgeOnChangeTogglesModal ==
  LET checked == ~pledgeChecked
  IN /\ IF checked
          THEN /\ isPledgeModalOpen' = ~isPledgeModalOpen
               /\ UNCHANGED pledgeChecked
          ELSE /\ pledgeChecked' = FALSE
               /\ UNCHANGED isPledgeModalOpen
     /\ last' = Event("pledgeCheckbox", "", EmptyStr,
                      IF checked THEN "checked" ELSE "unchecked")
     /\ UNCHANGED <<isBenefitsModalOpen, benefitsChecked>>
     /\ UNCHANGED <<formVars, readers, pipelineVars, envVars>>
     /\ today' = clock

\* The pledge checkbox's onChange.
pledgeOnChange ==
  LET checked == ~pledgeChecked
  IN /\ IF checked
          THEN /\ isPledgeModalOpen' = TRUE
               /\ UNCHANGED pledgeChecked
          ELSE /\ pledgeChecked' = FALSE
               /\ UNCHANGED isPledgeModalOpen
     /\ last' = Event("pledgeCheckbox", "", EmptyStr,
                      IF checked THEN "checked" ELSE "unchecked")
     /\ UNCHANGED <<isBenefitsModalOpen, benefitsChecked>>
     /\ UNCHANGED <<formVars, readers, pipelineVars, envVars>>
     /\ today' = IF ~pledgeChecked /\ isPledgeModalOpen THEN today ELSE clock

\* The confirm button accepting the pledge without closing the modal.
pledgeModalConfirmStaysOpen ==
  /\ isPledgeModalOpen
  /\ UNCHANGED isPledgeModalOpen
  /\ pledgeChecked' = TRUE
  /\ last' = Event("pledgeModal", "", EmptyStr, "confirmed")
  /\ UNCHANGED <<isBenefitsModalOpen, benefitsChecked>>
  /\ UNCHANGED <<formVars, readers, pipelineVars, envVars>>
  /\ today' = clock

\* The confirm button of the pledge modal, rendered while the modal is open.
pledgeModalConfirm ==
  /\ isPledgeModalOpen
  /\ isPledgeModalOpen' = FALSE
  /\ pledgeChecked' = TRUE
  /\ last' = Event("pledgeModal", "", EmptyStr, "confirmed")
  /\ UNCHANGED <<isBenefitsModalOpen, benefitsChecked>>
  /\ UNCHANGED <<formVars, readers, pipelineVars, envVars>>
  /\ today' = clock

\* ---------------------------------------------------------------- specification
\* One more user event, within the bound.
Tick == events < MaxEvents /\ events' = events + 1

SessionDate == [y |-> 2026, m |-> 3, d |-> 10]
\* The time zone of a browser in Korea.
KoreaTimeZone == "Asia/Seoul"

\* The component as constructed (every useState at its initial value), with
\* the record, the photo, the advisory, the errors and the pledge as the user's
\* events so far have left them.
Session(fd, img, warning, errs, pledge, now, zone) ==
  /\ formData = fd
  /\ profileImage = img
  /\ englishNameWarning = warning
  /\ isPledgeModalOpen = FALSE
  /\ isBenefitsModalOpen = FALSE
  /\ pledgeChecked = pledge
  /\ benefitsChecked = FALSE
  /\ errors = errs
  /\ readers = << >>
  /\ captures = << >>
  /\ hidden = FALSE
  /\ page = NoPage
  /\ downloads = << >>
  /\ alerts = 0
  /\ focused = "none"
  /\ today = now
  /\ clock = now
  /\ timeZone = zone
  /\ events = 0
  /\ last = Event("init", "", EmptyStr, "")

\* The form as constructed, or already filled in completely by the user.
Init ==
  \/ Session(EmptyFormData, null, EmptyStr, << >>, FALSE, SessionDate, KoreaTimeZone)
  \/ Session(FilledFormData, DataURL("photo-1"), EmptyStr, << >>, FALSE,
             SessionDate, KoreaTimeZone)

Edit == \E name \in ChangeNames : \E value \in InputValues(name) :
          Tick /\ handleChange(name, value)
EditEnglishName == \E value \in SampleRawNames : Tick /\ handleEnglishNameChange(value)
SelectFile == \E file \in Files \cup {NoFile} : Tick /\ handleImageUpload(file)
FileLoaded == \E i \in 1..Len(readers) : readerOnload(i) /\ UNCHANGED events
ToggleBenefits == Tick /\ benefitsOnChange
CloseBenefits == Tick /\ benefitsModalClose
TogglePledge == Tick /\ pledgeOnChange
ConfirmPledge == Tick /\ pledgeModalConfirm
ClickSubmit == Tick /\ submitButtonClick
CaptureDone == \E i \in 1..Len(captures) : \E size \in CaptureSizes :
                 html2canvasResolved(i, size[1], size[2]) /\ UNCHANGED events
CaptureFailed == \E i \in 1..Len(captures) : html2canvasRejected(i) /\ UNCHANGED events
Midnight == Tick /\ midnight

Next ==
  \/ Edit
  \/ EditEnglishName
  \/ SelectFile
  \/ FileLoaded
  \/ ToggleBenefits
  \/ CloseBenefits
  \/ TogglePledge
  \/ ConfirmPledge
  \/ ClickSubmit
  \/ CaptureDone
  \/ CaptureFailed
  \/ Midnight

Spec == Init /\ [][Next]_vars

\* ---------------------------------------------------------------- validation alone
\* A record with exactly the fields of S filled in.
RecordWith(S) == [f \in FormFields |-> IF f \in S THEN FilledFormData[f] ELSE EmptyStr]

\* The errors after a validation of the empty form followed by an edit of
\* every field: every key still there, the messages undefined (the photo's
\* only once a photo has loaded).
ErrorsAllCleared(img) ==
  [i \in 1..Len(ValidationOrder) |->
     [key |-> ValidationOrder[i],
      msg |-> IF ValidationOrder[i] = "profileImage" /\ img = null
                THEN ErrorMessage("profileImage") ELSE undefined]]

\* Every pattern of present and missing items, the pledge accepted, before a
\* first or after an earlier validation.
InitValidate ==
  \E S \in SUBSET FormFields : \E img \in {null, DataURL("photo-1")} :
    \E errs \in {<< >>, ErrorsAllCleared(img)} :
      Session(RecordWith(S), img, EmptyStr, errs, TRUE, SessionDate, KoreaTimeZone)

NextValidate == ClickSubmit

SpecValidate == InitValidate /\ [][NextValidate]_vars

\* ---------------------------------------------------------------- Latin name alone
\* The form with the Latin name empty or entered, the advisory shown or not,
\* before a first validation or after one (the pledge accepted, the submit
\* button clicked).
InitLatin ==
  \E stored \in {EmptyStr, <<"K", "i", "m">>} :
    \E warning \in {EmptyStr, EnglishNameWarningText} :
      LET fd == [EmptyFormData EXCEPT !["nameEnglish"] = stored]
      IN \/ Session(fd, null, warning, << >>, FALSE, SessionDate, KoreaTimeZone)
         \/ Session(fd, null, warning, newErrors(fd, null), TRUE,
                    SessionDate, KoreaTimeZone)

\* One update of the Latin name, with any raw string.
TypeEnglishName == \E value \in RawNames :
                     events = 0 /\ Tick /\ handleEnglishNameChange(value)

NextLatin == TypeEnglishName

SpecLatin == InitLatin /\ [][NextLatin]_vars

\* ---------------------------------------------------------------- grade alone
\* Current dates tried.
Todays ==
  {[y |-> 2026, m |-> 3, d |-> 10], [y |-> 2026, m |-> 3, d |-> 1],
   [y |-> 2026, m |-> 1, d |-> 1], [y |-> 2026, m |-> 12, d |-> 31],
   [y |-> 2028, m |-> 2, d |-> 29], [y |-> 2026, m |-> 3, d |-> 27],
   [y |-> 2026, m |-> 6, d |-> 14]}

\* Time zones tried: one always east of UTC, UTC, one always west, one west
\* in winter and at UTC in summer, one that went from west to east in 2011.
TimeZones ==
  {KoreaTimeZone, "UTC", "America/Los_Angeles", "Atlantic/Azores", "Pacific/Apia"}

\* The years the date input holds while a year is being typed (2, 20, 201
\* on the way to 2015), and a three-digit year.
TypedYears == {2, 20, 201, 999}

\* Month and day of the birthdays tried for a current date: the day itself, the
\* days before and after it, and the ends of the year.
BirthdaysAround(now) ==
  {<<now.m, now.d>>, <<PreviousDay(now).m, PreviousDay(now).d>>,
   <<NextDay(now).m, NextDay(now).d>>, <<1, 1>>, <<12, 31>>}

\* The values the date input can hand over.
BirthDateInputs(now) ==
  {EmptyStr} \cup
  {DateInputValue([y |-> y, m |-> md[1], d |-> md[2]]) :
     <<y, md>> \in {p \in (((now.y - MaxAge)..(now.y + 1)) \cup TypedYears)
                             \X BirthdaysAround(now) :
                     p[2][2] <= DaysInMonth(p[1], p[2][1])}}

InitGrade ==
  \E now \in Todays : \E zone \in TimeZones :
    Session(EmptyFormData, null, EmptyStr, << >>, FALSE, now, zone)

EditBirthDate == \E value \in BirthDateInputs(today) :
                   Tick /\ handleChange("dateOfBirth", value)

NextGrade == EditBirthDate \/ Midnight

SpecGrade == InitGrade /\ [][NextGrade]_vars

\* ---------------------------------------------------------------- composition alone
\* Capture sizes around the available area's, and the small ones.
Dims ==
  (1..MaxSmallDim) \cup
  {570, 1139, 1140, 1141, 1543, 1544, 1545, 1792, 2280, 3000, 3088, 3500}

\* The filled form, the pledge accepted, after the click that started a
\* capture.
InitGeom ==
  /\ formData = FilledFormData
  /\ profileImage = DataURL("photo-1")
  /\ englishNameWarning = EmptyStr
  /\ isPledgeModalOpen = FALSE
  /\ isBenefitsModalOpen = FALSE
  /\ pledgeChecked = TRUE
  /\ benefitsChecked = FALSE
  /\ errors = << >>
  /\ readers = << >>
  /\ captures = <<[nameKorean |-> FilledFormData.nameKorean, today |-> SessionDate]>>
  /\ hidden = TRUE
  /\ page = NoPage
  /\ downloads = << >>
  /\ alerts = 0
  /\ focused = "none"
  /\ today = SessionDate
  /\ clock = SessionDate
  /\ timeZone = KoreaTimeZone
  /\ events = 3
  /\ last = Event("handleSubmit", "", EmptyStr, "capturing")

CaptureSized == \E i \in 1..Len(captures) : \E w \in Dims : \E h \in Dims :
                  html2canvasResolved(i, w, h) /\ UNCHANGED events

NextGeom == CaptureSized

SpecGeom == InitGeom /\ [][NextGeom]_vars

\* ---------------------------------------------------------------- two reads pending
\* The form empty or filled in, before a first validation or after one, after
\* the user has selected photo-1 and then photo-2 and before either read has
\* completed.
InitReads ==
  \E fd \in {EmptyFormData, FilledFormData} : \E validated \in BOOLEAN :
    LET errs == IF validated THEN newErrors(fd, null) ELSE << >>
        reader(file) == [file |-> file,
                         errorsProfileImage |-> ErrGet(errs, "profileImage")]
    IN /\ formData = fd
       /\ profileImage = null
       /\ englishNameWarning = EmptyStr
       /\ isPledgeModalOpen = FALSE
       /\ isBenefitsModalOpen = FALSE
       /\ pledgeChecked = validated
       /\ benefitsChecked = FALSE
       /\ errors = errs
       /\ readers = <<reader("photo-1"), reader("photo-2")>>
       /\ captures = << >>
       /\ hidden = FALSE
       /\ page = NoPage
       /\ downloads = << >>
       /\ alerts = 0
       /\ focused = "none"
       /\ today = SessionDate
       /\ clock = SessionDate
       /\ timeZone = KoreaTimeZone
       /\ events = 2
       /\ last = Event("handleImageUpload", "profileImage", <<"photo-2">>, "reading")

SpecReads == InitReads /\ [][Next]_vars

\* ---------------------------------------------------------------- properties
\* The required items: the 13 fields of FormData and the photo.
RequiredItems == FormFields \cup {"profileImage"}

\* Item k is empty or unset in the current state.
ItemMissing(k) == IF k = "profileImage" THEN profileImage = null ELSE formData[k] = EmptyStr

MissingItems == {k \in RequiredItems : ItemMissing(k)}

\* The items the error set holds a message for.
ErrorEntries(errs) == {k \in ErrKeys(errs) : ErrGet(errs, k) # undefined}

\* A step that is a click on the submit button, whether or not the button
\* dispatched it.
SubmitAttempt == last'.op \in {"handleSubmit", "submitButton"} /\ events' = events + 1

\* A step in which handleSubmit ran.
SubmitRan == last'.op = "handleSubmit" /\ events' = events + 1

CaptureStarted == Len(captures') > Len(captures)

\* C1: a submit attempt starts a capture only if every required item is
\* present and the pledge is accepted at that attempt; any other attempt starts
\* no capture; no attempt triggers a download by itself; and no other step
\* starts a capture.
C1_CaptureOnlyWhenValidAndPledged ==
  [][/\ CaptureStarted => (SubmitRan /\ MissingItems = {} /\ pledgeChecked)
     /\ SubmitAttempt =>
          /\ (MissingItems # {} \/ ~pledgeChecked) =>
               (captures' = captures /\ hidden' = hidden /\ page' = page)
          /\ downloads' = downloads]_vars

C1_Witness ==
  /\ last.op = "handleSubmit" /\ last.res = "capturing"
  /\ Len(captures) = 1 /\ hidden /\ pledgeChecked /\ MissingItems = {}

\* C2: pledgeChecked turns from false to true only in the confirm step of the
\* pledge modal, taken while the modal is open; checking the pledge checkbox
\* opens the modal and leaves pledgeChecked false.
C2_PledgeOnlyByConfirm ==
  [][/\ (~pledgeChecked /\ pledgeChecked') =>
          (isPledgeModalOpen /\ last'.op = "pledgeModal" /\ last'.res = "confirmed")
     /\ (last'.op = "pledgeCheckbox" /\ last'.res = "checked") =>
          (isPledgeModalOpen' /\ ~pledgeChecked /\ ~pledgeChecked')]_vars

C2_Witness ==
  last.op = "pledgeModal" /\ last.res = "confirmed" /\ pledgeChecked /\ ~isPledgeModalOpen

\* C3: a validation pass leaves a message for exactly the required items that
\* are missing, whatever the error set held before; with none missing the
\* error set is empty and validateForm returns true; with exactly one missing
\* it holds exactly one entry, for that item, and validateForm returns false.
C3_ValidateExactlyMissing ==
  [][SubmitRan =>
       /\ ErrorEntries(errors') = MissingItems
       /\ ErrKeys(errors') = MissingItems
       /\ Len(errors') = Cardinality(MissingItems)
       /\ \A k \in MissingItems : ErrGet(errors', k) = ErrorMessage(k)
       /\ (MissingItems = {}) => (errors' = << >> /\ last'.res # "invalid")
       /\ (MissingItems # {}) => last'.res = "invalid"
       /\ \A k \in RequiredItems :
            (MissingItems = {k}) => (Len(errors') = 1 /\ errors'[1].key = k)]_vars

C3_Witness ==
  /\ last.op = "handleSubmit" /\ last.res = "invalid"
  /\ MissingItems = {"signature"}
  /\ errors = <<[key |-> "signature", msg |-> ErrorMessage("signature")]>>

\* C4, as claimed: handleSubmit on the empty form with no photo leaves 15
\* entries in the error set and starts no capture.
C4_FifteenEntries ==
  [][(SubmitRan /\ formData = EmptyFormData /\ profileImage = null) =>
       (Cardinality(ErrorEntries(errors')) = 15 /\ captures' = captures)]_vars

\* C4, amended: a submit attempt on the empty form with no photo starts no
\* capture; when handleSubmit runs (the button is enabled, the pledge being
\* accepted) it leaves 14 entries, one for each of the 13 fields and one for
\* the photo; on the disabled button it changes nothing.
C4_FourteenEntries ==
  [][(SubmitAttempt /\ formData = EmptyFormData /\ profileImage = null) =>
       /\ captures' = captures /\ downloads' = downloads
       /\ pledgeChecked =>
            (ErrorEntries(errors') = RequiredItems /\ Len(errors') = 14)
       /\ ~pledgeChecked => errors' = errors]_vars

C4_Witness ==
  /\ last.op = "handleSubmit" /\ last.res = "invalid"
  /\ formData = EmptyFormData /\ profileImage = null
  /\ Len(errors) = 14 /\ captures = << >>

\* C5, as claimed: a submit attempt with every required item present and the
\* pledge not accepted shows the alert and starts no capture.
C5_AlertWhenPledgeMissing ==
  [][(SubmitAttempt /\ MissingItems = {} /\ ~pledgeChecked) =>
       (alerts' = alerts + 1 /\ captures' = captures)]_vars

\* C6: a submit attempt with every required item present and the pledge
\* accepted starts exactly one capture and goes no further in that step; a
\* download happens only in the step in which a capture completes, which ends
\* that one capture and triggers exactly one download.
C6_OneCaptureOneDownload ==
  [][/\ (SubmitAttempt /\ MissingItems = {} /\ pledgeChecked) =>
          /\ Len(captures') = Len(captures) + 1
          /\ downloads' = downloads /\ page' = page
     /\ (downloads' # downloads) =>
          (last'.op = "html2canvas" /\ last'.res = "resolved")
     /\ (last'.op = "html2canvas" /\ last'.res = "resolved" /\ events' = events) =>
          /\ Len(captures') = Len(captures) - 1
          /\ Len(downloads') = Len(downloads) + 1
          /\ SubSeq(downloads', 1, Len(downloads)) = downloads]_vars

C6_Witness ==
  /\ last.op = "html2canvas" /\ last.res = "resolved"
  /\ Len(downloads) = 1 /\ captures = << >> /\ events = 3

\* The class the Latin name is held to.
LatinClass == UpperCase \cup LowerCase \cup WhiteSpace \cup {"-"}

\* C7: a raw value made only of A-Z, a-z, whitespace and hyphen becomes the
\* stored Latin name, clears the advisory and clears the Latin name's error;
\* any other raw value leaves the stored name and the error set unchanged and
\* sets the advisory.
C7_LatinNameUpdate ==
  [][last'.op = "handleEnglishNameChange" =>
       LET raw == last'.val
       IN IF {raw[i] : i \in 1..Len(raw)} \subseteq LatinClass
            THEN /\ formData' = [formData EXCEPT !["nameEnglish"] = raw]
                 /\ englishNameWarning' = EmptyStr
                 /\ "nameEnglish" \notin ErrorEntries(errors')
                 /\ ErrorEntries(errors') = ErrorEntries(errors) \ {"nameEnglish"}
            ELSE /\ formData' = formData
                 /\ englishNameWarning' # EmptyStr
                 /\ errors' = errors]_vars

C7_Witness ==
  /\ last.op = "handleEnglishNameChange" /\ last.res = "stored"
  /\ last.val # EmptyStr /\ formData.nameEnglish = last.val
  /\ "nameEnglish" \in ErrKeys(errors) /\ "nameEnglish" \notin ErrorEntries(errors)
  /\ englishNameWarning = EmptyStr

\* The grade by the rule: the age is the difference of the years, less one if
\* the current month and day come before the birth month and day as the birth
\* date is written.
ReferenceGrade(birthDate, now) ==
  IF birthDate = EmptyStr THEN EmptyStr
  ELSE
    LET by == ParseDigits(SubSeq(birthDate, 1, 4))
        bm == ParseDigits(SubSeq(birthDate, 6, 7))
        bd == ParseDigits(SubSeq(birthDate, 9, 10))
        before == now.m < bm \/ (now.m = bm /\ now.d < bd)
        koreanAge == (now.y - by) - (IF before THEN 1 ELSE 0) + 1
    IN CASE koreanAge >= 17 -> <<HighSchool>> \o ToDigits(koreanAge - 16)
         [] koreanAge \in 14..16 -> <<MiddleSchool>> \o ToDigits(koreanAge - 13)
         [] koreanAge \in 8..13 -> <<Elementary>> \o ToDigits(koreanAge - 7)
         [] koreanAge \in 1..7 -> <<Preschool>>
         [] OTHER -> EmptyStr

\* C8, as claimed: for every birth date and current date the grade shown is
\* the one the rule gives.
C8_GradeMatchesRule == Grade = ReferenceGrade(formData.dateOfBirth, today)

\* Where the browser's zone was at or east of UTC at the birth instant the
\* grade shown is the rule's.
GradeMatchesRuleEastOfUTC ==
  (formData.dateOfBirth = EmptyStr
     \/ ~WestOfUTC(timeZone, ParseISODate(formData.dateOfBirth)))
    => Grade = ReferenceGrade(formData.dateOfBirth, today)

\* Arithmetic without rounding, to measure what the code computed.
NumLeq(a, b) == ~NumLess(b, a)

ExactAdd(a, b) ==
  LET s == ExactSum(a, b) IN Number(s.neg, s.m, s.e)

ExactSub(a, b) == ExactAdd(a, NumNeg(b))

ExactAbs(a) == [a EXCEPT !.neg = FALSE]

\* k * a for an integer k
ExactMulInt(k, a) ==
  Number(a.neg # (k < 0), BigMul(BitsOfNat(Abs(k)), a.m), a.e)

\* 2^-20: about a millionth of a pixel.
Tolerance == Number(FALSE, <<1>>, -20)

\* a and b differ by no more than the tolerance.
Near(a, b) == NumLeq(ExactAbs(ExactSub(a, b)), Tolerance)

\* C9, as claimed: the rectangle drawn for a capture of w x h pixels is
\* (x, y, w * ratio, h * ratio), lies inside the margined region
\* [50, 1190] x [160, 1704], leaves equal space left and right and equal space
\* above and below, keeps the ratio w : h, and is enlarged only if the capture
\* is smaller than the available area in both dimensions.
C9_ScaledToFitAndCentered ==
  (page.srcW >= 1 /\ page.srcH >= 1) =>
    LET left == NumberOfInt(50)
        right == NumberOfInt(1190)
        top == NumberOfInt(160)
        bottom == NumberOfInt(1704)
        xEnd == ExactAdd(page.x, page.newWidth)
        yEnd == ExactAdd(page.y, page.newHeight)
    IN /\ page.newWidth = ExactMulInt(page.srcW, page.ratio)
       /\ page.newHeight = ExactMulInt(page.srcH, page.ratio)
       /\ NumLeq(left, page.x) /\ NumLeq(xEnd, right)
       /\ NumLeq(top, page.y) /\ NumLeq(yEnd, bottom)
       /\ ExactSub(page.x, left) = ExactSub(right, xEnd)
       /\ ExactSub(page.y, top) = ExactSub(bottom, yEnd)
       /\ ExactMulInt(page.srcH, page.newWidth) = ExactMulInt(page.srcW, page.newHeight)
       /\ NumLess(NumberOfInt(1), page.ratio) => (page.srcW < 1140 /\ page.srcH < 1544)

\* C9, amended: the same to within the rounding of the double arithmetic the
\* code computes in: the sides of the rectangle are w * ratio and h * ratio, it
\* lies inside the margined region, the space left and right and the space
\* above and below are equal, and w : h is kept, each to within a millionth of
\* a pixel; and it is enlarged only if the capture is smaller than the
\* available area in both dimensions.
C9_ScaledToFitWithinRounding ==
  (page.srcW >= 1 /\ page.srcH >= 1) =>
    LET left == NumberOfInt(50)
        right == NumberOfInt(1190)
        top == NumberOfInt(160)
        bottom == NumberOfInt(1704)
        xEnd == ExactAdd(page.x, page.newWidth)
        yEnd == ExactAdd(page.y, page.newHeight)
    IN /\ Near(page.newWidth, ExactMulInt(page.srcW, page.ratio))
       /\ Near(page.newHeight, ExactMulInt(page.srcH, page.ratio))
       /\ NumLeq(ExactSub(left, Tolerance), page.x)
       /\ NumLeq(xEnd, ExactAdd(right, Tolerance))
       /\ NumLeq(ExactSub(top, Tolerance), page.y)
       /\ NumLeq(yEnd, ExactAdd(bottom, Tolerance))
       /\ Near(ExactSub(page.x, left), ExactSub(right, xEnd))
       /\ Near(ExactSub(page.y, top), ExactSub(bottom, yEnd))
       /\ Near(ExactMulInt(page.srcH, page.newWidth),
               ExactMulInt(page.srcW, page.newHeight))
       /\ NumLess(NumberOfInt(1), page.ratio) => (page.srcW < 1140 /\ page.srcH < 1544)

C9_Witness ==
  /\ page.srcW = 1792 /\ page.srcH = 3000
  /\ NumLess(page.y, NumberOfInt(160))
  /\ NumLess(NumberOfInt(1544), page.newHeight)
  /\ Near(page.y, NumberOfInt(160))
  /\ Near(page.newHeight, NumberOfInt(1544))

\* C10: handleChange(n, v) stores v in field n, leaves no message for n in the
\* error set whatever v is, and leaves every other field, every other entry of
\* the error set, the photo and the gate as they were.
C10_HandleChangeFrame ==
  [][last'.op = "handleChange" =>
       LET n == last'.key
           v == last'.val
       IN /\ n \in FormFields \ {"nameEnglish"}
          /\ formData'[n] = v
          /\ \A f \in FormFields \ {n} : formData'[f] = formData[f]
          /\ n \notin ErrorEntries(errors')
          /\ \A k \in RequiredItems \ {n} : ErrGet(errors', k) = ErrGet(errors, k)
          /\ profileImage' = profileImage
          /\ englishNameWarning' = englishNameWarning
          /\ UNCHANGED gateVars]_vars

C10_Witness ==
  /\ last.op = "handleChange" /\ last.key = "nameKorean" /\ last.val = EmptyStr
  /\ formData.nameKorean = EmptyStr
  /\ "nameKorean" \in ErrKeys(errors) /\ "nameKorean" \notin ErrorEntries(errors)
  /\ "affiliation" \in ErrorEntries(errors)

\* C11: whenever the pledge is accepted, a click on the pledge checkbox is an
\* uncheck that makes pledgeChecked false in that step, with the pledge modal
\* left closed and no confirm step involved.
C11_UncheckRevokesAtOnce ==
  [][(pledgeChecked /\ last'.op = "pledgeCheckbox") =>
       /\ last'.res = "unchecked"
       /\ ~pledgeChecked'
       /\ isPledgeModalOpen' = isPledgeModalOpen
       /\ ~isPledgeModalOpen']_vars

C11_Witness ==
  /\ last.op = "pledgeCheckbox" /\ last.res = "unchecked"
  /\ ~pledgeChecked /\ ~isPledgeModalOpen

\* The order in which the fields are laid out for focus: the 13 fields, then
\* the photo.
CanonicalOrder ==
  <<"affiliation", "nameKorean", "nameEnglish", "membershipType", "gender",
    "email", "phoneApplicant", "guardianRelationship", "guardianName",
    "guardianPhone", "address", "signature", "dateOfBirth", "profileImage">>

\* The first missing item in that order (there being one).
FirstMissing ==
  CanonicalOrder[CHOOSE i \in 1..Len(CanonicalOrder) :
                   /\ ItemMissing(CanonicalOrder[i])
                   /\ \A j \in 1..(i - 1) : ~ItemMissing(CanonicalOrder[j])]

\* C12, as claimed: a run of handleSubmit whose validation fails focuses the
\* first item, in the canonical order, that this validation found missing; the
\* focus stays where it was only if that item has no element.
C12_FocusFirstInvalid ==
  [][(SubmitRan /\ MissingItems # {}) =>
       IF FirstMissing \in ElementIds
         THEN focused' = FirstMissing
         ELSE focused' = focused]_vars

\* C13, as claimed: once no capture is pending, nothing the pipeline hid is
\* still hidden.
C13_HiddenRestoredOnExit == (captures = << >>) => ~hidden

\* C14, as claimed: a completed read replaces the photo by its result and
\* leaves no message for the photo in the error set.
C14_ReadClearsPhotoError ==
  [][last'.op = "reader.onload" =>
       /\ profileImage' = DataURL(last'.val[1])
       /\ "profileImage" \notin ErrorEntries(errors')]_vars

\* C15: with photo-1 and photo-2 selected and both reads pending, every
\* completion ends exactly one pending read and makes its result the photo,
\* whole; nothing else changes the photo; so the photo is the result of the
\* read that completed last, whichever that is.
C15_LastCompletionWins ==
  [][/\ last'.op = "reader.onload" =>
          \E i \in 1..Len(readers) :
            /\ readers[i].file = last'.val[1]
            /\ readers' = RemoveAt(readers, i)
            /\ profileImage' = DataURL(readers[i].file)
     /\ profileImage' # profileImage => last'.op = "reader.onload"
     /\ (last'.op # "handleImageUpload") => Len(readers') <= Len(readers)]_vars

C15_Witness ==
  /\ events = 2 /\ readers = << >>
  /\ last.op = "reader.onload" /\ last.val = <<"photo-1">>
  /\ profileImage = DataURL("photo-1")

\* C16: a submit attempt made while a capture is pending, with every required
\* item present and the pledge accepted, starts one more capture beside the
\* pending ones; and every completion ends one capture and downloads the file
\* of that capture.
C16_SecondSubmitOverlaps ==
  [][/\ (SubmitAttempt /\ captures # << >> /\ MissingItems = {} /\ pledgeChecked) =>
          /\ last'.res = "capturing"
          /\ Len(captures') = Len(captures) + 1
          /\ SubSeq(captures', 1, Len(captures)) = captures
     /\ (last'.op = "html2canvas" /\ last'.res = "resolved") =>
          \E i \in 1..Len(captures) :
            /\ captures' = RemoveAt(captures, i)
            /\ downloads' = Append(downloads,
                                   DownloadName(captures[i].nameKorean,
                                                captures[i].today))]_vars

C16_Witness ==
  /\ Len(captures) = 2 /\ downloads = << >>
  /\ last.op = "handleSubmit" /\ last.res = "capturing"

\* C17: the benefits checkbox and the close button of the benefits modal leave
\* pledgeChecked and the pledge modal as they were; the pledge checkbox and the
\* confirm button leave benefitsChecked and the benefits modal as they were;
\* closing the benefits modal leaves benefitsChecked as it was, and
\* benefitsChecked changes only by the benefits checkbox, to the opposite of
\* what it was, whether the benefits modal is open or not.
C17_TracksIndependent ==
  [][/\ last'.op \in {"benefitsCheckbox", "benefitsModal"} =>
          (pledgeChecked' = pledgeChecked /\ isPledgeModalOpen' = isPledgeModalOpen)
     /\ last'.op \in {"pledgeCheckbox", "pledgeModal"} =>
          (benefitsChecked' = benefitsChecked
             /\ isBenefitsModalOpen' = isBenefitsModalOpen)
     /\ last'.op = "benefitsModal" =>
          (benefitsChecked' = benefitsChecked /\ ~isBenefitsModalOpen')
     /\ last'.op = "benefitsCheckbox" => benefitsChecked' = ~benefitsChecked
     /\ benefitsChecked' # benefitsChecked => last'.op = "benefitsCheckbox"]_vars

C17_Witness ==
  /\ last.op = "benefitsModal" /\ last.res = "closed"
  /\ benefitsChecked /\ ~isBenefitsModalOpen
  /\ pledgeChecked /\ ~isPledgeModalOpen

\* C18: while the pledge modal is open and the pledge not accepted, the only
\* step that closes the modal or changes pledgeChecked is the confirm step,
\* which leaves the modal closed and the pledge accepted.
C18_PendingLeavesOnlyByConfirm ==
  [][(/\ isPledgeModalOpen /\ ~pledgeChecked
      /\ (isPledgeModalOpen' # isPledgeModalOpen \/ pledgeChecked' # pledgeChecked)) =>
       /\ last'.op = "pledgeModal" /\ last'.res = "confirmed"
       /\ pledgeChecked' /\ ~isPledgeModalOpen']_vars

C18_Witness ==
  /\ isPledgeModalOpen /\ ~pledgeChecked
  /\ last.op = "handleChange" /\ events >= 2

\* C19, as claimed: the step that triggers the download leaves the record
\* empty and the photo unset.
C19_RecordDiscardedAfterDownload ==
  [][(downloads' # downloads) =>
       (formData' = EmptyFormData /\ profileImage' = null)]_vars

\* C19, amended: the step that triggers the download leaves the record and
\* the photo as they were; the session still holds them.
C19_RecordKeptAfterDownload ==
  [][(downloads' # downloads) =>
       (formData' = formData /\ profileImage' = profileImage)]_vars

C19_Witness ==
  /\ last.op = "html2canvas" /\ last.res = "resolved"
  /\ Len(downloads) = 1
  /\ formData = FilledFormData /\ profileImage = DataURL("photo-1")

\* C20: the pledge modal is never open while the pledge is accepted.
C20_NotOpenWhileAccepted == ~(isPledgeModalOpen /\ pledgeChecked)

C20_Witness ==
  /\ isPledgeModalOpen /\ ~pledgeChecked
  /\ last.op = "pledgeCheckbox" /\ last.res = "checked"
  /\ events = 4

\* C21: in every reachable state the stored Latin name is made only of A-Z,
\* a-z, whitespace and hyphen (or is empty), whatever was typed, rejected,
\* validated or submitted before.
C21_StoredLatinNameInClass ==
  \A i \in 1..Len(formData.nameEnglish) : formData.nameEnglish[i] \in LatinClass

C21_Witness ==
  /\ last.op = "handleEnglishNameChange" /\ last.res = "rejected"
  /\ last.val = <<"K", "1">>
  /\ formData.nameEnglish = <<"K", "i", "m">>
  /\ englishNameWarning = EnglishNameWarningText

\* C22: a step in which handleSubmit does not run adds no message to the error
\* set: the items with a message after it are among those with a message
\* before it. So between two validations the set only shrinks from what the
\* earlier one computed.
C22_OnlyValidationAddsErrors ==
  [][~SubmitRan => ErrorEntries(errors') \subseteq ErrorEntries(errors)]_vars

C22_Witness ==
  /\ last.op = "reader.onload"
  /\ "profileImage" \in ErrKeys(errors) /\ "profileImage" \notin ErrorEntries(errors)
  /\ ErrorEntries(errors) = FormFields

\* C23, as claimed: while a capture is pending the .print-ignore elements of
\* the form are hidden; they are visible only when none is pending.
C23_HiddenWhileCapturing == (captures # << >>) => hidden

\* C24: a pending capture is ended only by its own completion, not by an edit
\* or by unchecking the pledge; and a completion that delivers a canvas
\* downloads the file named at the submit attempt, whether or not the pledge is
\* still accepted and whatever the record holds by then.
C24_PipelineNotCancelled ==
  [][/\ (Len(captures') < Len(captures)) => last'.op = "html2canvas"
     /\ (last'.op \in {"handleChange", "handleEnglishNameChange", "pledgeCheckbox"}) =>
          (captures' = captures /\ downloads' = downloads)
     /\ (last'.op = "html2canvas" /\ last'.res = "resolved") =>
          \E i \in 1..Len(captures) :
            /\ captures' = RemoveAt(captures, i)
            /\ pledgeChecked' = pledgeChecked
            /\ downloads' = Append(downloads,
                                   DownloadName(captures[i].nameKorean,
                                                captures[i].today))]_vars

C24_Witness ==
  /\ last.op = "html2canvas" /\ last.res = "resolved"
  /\ ~pledgeChecked /\ Len(downloads) = 1 /\ captures = << >>

\* C25: a click on the submit button runs handleSubmit exactly when the pledge
\* is accepted; with the pledge not accepted the click changes nothing; so no
\* run of handleSubmit ends in the alert and alert() is never shown.
C25_ButtonEnabledIffPledged ==
  [][/\ SubmitAttempt =>
          IF pledgeChecked
            THEN last'.op = "handleSubmit" /\ last'.res \in {"invalid", "capturing"}
            ELSE /\ last'.op = "submitButton" /\ last'.res = "disabled"
                 /\ UNCHANGED <<formVars, readers, gateVars, pipelineVars>>
     /\ last'.res # "alert"
     /\ alerts' = 0]_vars

C25_Witness ==
  /\ last.op = "submitButton" /\ last.res = "disabled"
  /\ MissingItems = {} /\ ~pledgeChecked
  /\ alerts = 0 /\ captures = << >>

====
